---- MODULE Spec2Model ----
(***************************************************************************)
(* A model of the sanitize package: the int32 field sanitizer, the         *)
(* Accessor (GetUnexportedField), the type-dispatch table and the          *)
(* traversal engine (Sanitize, iterable, isValid, sanitizeRec).            *)
(*                                                                         *)
(* Go values are modelled structurally:                                    *)
(*   int32, complex128, MyStr, MyInt   an integer                          *)
(*   *T                                <<>> (nil) or <<v>> (points at v)   *)
(*   []T                               a sequence of T values              *)
(*   map[string]T                      a function from a set of keys       *)
(*   struct                            the sequence of its field values    *)
(* A reflect.Value is a "view" [t, v, addr, ro]: the type name, the value  *)
(* it currently holds and the two flags that decide CanAddr and CanSet.    *)
(***************************************************************************)
EXTENDS Integers, Sequences, FiniteSets, TLC

\* ------------------------------------------------------------------ bounds
MaxVal == 2        \* field values range over -1..MaxVal
MaxDir == 1        \* numbers written in directives range over -1..MaxDir
MaxLen == 2        \* longest sequence in a record
MaxCalls == 2      \* Sanitize calls made on one record

Vals == (0 - 1)..MaxVal
Nil == <<>>
NoErr == <<>>

\* ------------------------------------------------------- directive texts
DigitChars == <<"0", "1", "2", "3", "4", "5", "6", "7", "8", "9">>

IsDigit(c) == \E i \in 1..10 : DigitChars[i] = c

DigitVal(c) == (CHOOSE i \in 1..10 : DigitChars[i] = c) - 1

Int32Max == 2^30 + (2^30 - 1)
Int32Min == (0 - 2^30) - 2^30

\* The digits accumulated into acc, away from zero; ok is FALSE once the
\* value leaves the int32 range.
RECURSIVE ParseDigits(_, _, _)
ParseDigits(digits, neg, acc) ==
    IF digits = <<>> THEN [n |-> acc, ok |-> TRUE]
    ELSE LET d == DigitVal(Head(digits))
             fits == IF neg THEN acc >= (Int32Min + d + 9) \div 10
                     ELSE acc <= (Int32Max - d) \div 10
         IN  IF ~fits THEN [n |-> 0, ok |-> FALSE]
             ELSE ParseDigits(Tail(digits), neg,
                              IF neg THEN 10 * acc - d ELSE 10 * acc + d)

\* strconv.ParseInt(s, 10, 32): optional sign, at least one digit, only
\* digits, and the result within the int32 range.
parseInt32(s) ==
    LET signed == s # <<>> /\ s[1] \in {"-", "+"}
        digits == IF signed THEN Tail(s) ELSE s
        wellFormed == digits # <<>> /\ \A i \in 1..Len(digits) : IsDigit(digits[i])
        p == ParseDigits(digits, signed /\ s[1] = "-", 0)
    IN  IF wellFormed /\ p.ok
        THEN [n |-> p.n, err |-> NoErr]
        ELSE [n |-> 0, err |-> <<"parse">>]

\* Decimal text of a small number, as it is written in a struct tag.
DirText(n) == IF n < 0 THEN <<"-", DigitChars[1 - n]>> ELSE <<DigitChars[n + 1]>>

TooWide == <<"2", "1", "4", "7", "4", "8", "3", "6", "4", "8">>

DirNums == (0 - 1)..MaxDir

\* The texts a directive of key k carries in the records of the model: the
\* numbers, and one text that does not parse (not a number for min and def,
\* a number too wide for int32 for max).
DirTexts(k) == {DirText(n) : n \in DirNums} \cup {IF k = "max" THEN TooWide ELSE <<"x">>}

DirKeys == {"min", "max", "def"}

\* s.fieldTags(tag): the Field Directive Set, a map from key to text.
TagSets ==
    UNION {{tg \in [S -> UNION {DirTexts(k) : k \in DirKeys}] :
              \A k \in S : tg[k] \in DirTexts(k)} : S \in SUBSET DirKeys}

NoTags == [k \in {} |-> <<>>]

\* ------------------------------------------------------------------ types
Int32Family == {"int32", "*int32", "[]int32", "[]*int32", "*[]int32", "*[]*int32"}

TypeNames ==
    {"int32", "*int32", "[]int32", "[]*int32", "*[]int32", "*[]*int32",
     "MyInt", "MyStr", "*MyStr", "string", "complex128",
     "Inner", "*Inner", "[]Inner", "[]*Inner", "*[]Inner", "*[]*Inner",
     "map[string]Inner", "map[string]*Inner", "*map[string]Inner", "*map[string]*Inner",
     "Outer", "*Outer", "[]Outer", "[]*Outer", "*[]*Outer", "map[string]*Outer",
     "nil", "invalid"}

\* reflect.Type.Kind() of the type names in use.
KindOf ==
    [t \in TypeNames |->
        CASE t \in {"int32"} -> "Int32"
          [] t \in {"MyInt"} -> "Int"
          [] t \in {"MyStr", "string"} -> "String"
          [] t \in {"complex128"} -> "Complex128"
          [] t \in {"Inner", "Outer"} -> "Struct"
          [] t \in {"*int32", "*[]int32", "*[]*int32", "*Inner", "*Outer", "*[]Inner",
                    "*[]*Inner", "*map[string]Inner", "*map[string]*Inner",
                    "*[]*Outer", "*MyStr"} -> "Ptr"
          [] t \in {"[]int32", "[]*int32", "[]Inner", "[]*Inner", "[]*Outer",
                    "[]Outer"} -> "Slice"
          [] t \in {"map[string]Inner", "map[string]*Inner", "map[string]*Outer"} -> "Map"
          [] OTHER -> "Invalid"]

Kind(t) == KindOf[t]

\* reflect.Type.Elem() of the type names in use.
ElemOf ==
    [t \in TypeNames |->
        CASE t \in {"*int32", "[]int32"} -> "int32"
          [] t \in {"[]*int32"} -> "*int32"
          [] t \in {"*[]int32"} -> "[]int32"
          [] t \in {"*[]*int32"} -> "[]*int32"
          [] t \in {"*Inner", "[]Inner", "map[string]Inner"} -> "Inner"
          [] t \in {"[]*Inner", "map[string]*Inner"} -> "*Inner"
          [] t \in {"*[]Inner"} -> "[]Inner"
          [] t \in {"*[]*Inner"} -> "[]*Inner"
          [] t \in {"*map[string]Inner"} -> "map[string]Inner"
          [] t \in {"*map[string]*Inner"} -> "map[string]*Inner"
          [] t \in {"*Outer", "[]Outer"} -> "Outer"
          [] t \in {"[]*Outer", "map[string]*Outer"} -> "*Outer"
          [] t \in {"*[]*Outer"} -> "[]*Outer"
          [] t \in {"*MyStr"} -> "MyStr"
          [] OTHER -> "invalid"]

ElemType(t) == ElemOf[t]

\* --------------------------------------------------- reflect.Value views
\* The zero reflect.Value: Kind() is Invalid.
ZeroValue == [t |-> "invalid", v |-> <<>>, addr |-> FALSE, ro |-> FALSE]

IsNil(x) == x.v = Nil

CanAddr(x) == x.addr

CanSet(x) == x.addr /\ ~x.ro

\* Value.Elem() of a pointer: the pointee is addressable and inherits the
\* read-only flag; of a nil pointer it is the zero Value.
Elem(x) ==
    IF IsNil(x) THEN ZeroValue
    ELSE [t |-> ElemType(x.t), v |-> x.v[1], addr |-> TRUE, ro |-> x.ro]

\* Value.Index(i) of a slice: slice elements are always addressable.
Index(x, i) == [t |-> ElemType(x.t), v |-> x.v[i], addr |-> TRUE, ro |-> x.ro]

\* Value.MapIndex(k): a copy of the stored value, never addressable.
MapIndex(x, k) == [t |-> ElemType(x.t), v |-> x.v[k], addr |-> FALSE, ro |-> x.ro]

\* Value.Field(i) of a struct view sv, for field descriptor fd holding fv:
\* addressability is inherited, an unexported field is read-only.
Field(sv, fd, fv) ==
    [t |-> fd.type, v |-> fv, addr |-> sv.addr, ro |-> sv.ro \/ ~fd.exported]

\* The Accessor. A field that cannot be addressed is returned as it is; a
\* non-nil pointer is followed to its pointee; the result aliases the same
\* storage with the read-only flag cleared. "via" counts the pointers
\* followed, so that a write to the result lands in the right place.
GetUnexportedField(f) ==
    IF ~CanAddr(f) THEN [x |-> f, via |-> 0]
    ELSE IF Kind(f.t) = "Ptr" /\ ~IsNil(f)
         THEN [x |-> [Elem(f) EXCEPT !.ro = FALSE], via |-> 1]
         ELSE [x |-> [f EXCEPT !.ro = FALSE], via |-> 0]

\* ------------------------------------------------- the int32 sanitizer
\* Int32Directives without the comparison of max with min.
Int32Directives_NoOrderCheck(tags) ==
    LET hasMin == "min" \in DOMAIN tags
        hasMax == "max" \in DOMAIN tags
        hasDef == "def" \in DOMAIN tags
        Checked(pMin, pMax, pDef) ==
            [err |-> IF pMin.err # NoErr THEN pMin.err
                     ELSE IF pMax.err # NoErr THEN pMax.err
                     ELSE IF (hasMin /\ pMin.n < 0) \/ (hasMax /\ pMax.n < 0)
                          THEN <<"min and max can not be below 0">>
                     ELSE IF pDef.err # NoErr THEN pDef.err
                     ELSE IF hasDef /\ hasMax /\ pDef.n > pMax.n
                          THEN <<"def is higher than max">>
                     ELSE IF hasDef /\ hasMin /\ pDef.n < pMin.n
                          THEN <<"def is lower than min">>
                     ELSE NoErr,
             hasMin |-> hasMin, min |-> pMin.n, hasMax |-> hasMax, max |-> pMax.n,
             hasDef |-> hasDef, def |-> pDef.n]
    IN  Checked(IF hasMin THEN parseInt32(tags["min"]) ELSE [n |-> 0, err |-> NoErr],
                IF hasMax THEN parseInt32(tags["max"]) ELSE [n |-> 0, err |-> NoErr],
                IF hasDef THEN parseInt32(tags["def"]) ELSE [n |-> 0, err |-> NoErr])

\* Parsing and validation of min, max and def, in the order of the code.
\* err is NoErr when the directives are accepted.
Int32Directives(tags) ==
    LET hasMin == "min" \in DOMAIN tags
        hasMax == "max" \in DOMAIN tags
        hasDef == "def" \in DOMAIN tags
        Checked(pMin, pMax, pDef) ==
            [err |-> IF pMin.err # NoErr THEN pMin.err
                     ELSE IF pMax.err # NoErr THEN pMax.err
                     ELSE IF hasMax /\ hasMin /\ pMax.n < pMin.n
                          THEN <<"max less than min">>
                     ELSE IF (hasMin /\ pMin.n < 0) \/ (hasMax /\ pMax.n < 0)
                          THEN <<"min and max can not be below 0">>
                     ELSE IF pDef.err # NoErr THEN pDef.err
                     ELSE IF hasDef /\ hasMax /\ pDef.n > pMax.n
                          THEN <<"def is higher than max">>
                     ELSE IF hasDef /\ hasMin /\ pDef.n < pMin.n
                          THEN <<"def is lower than min">>
                     ELSE NoErr,
             hasMin |-> hasMin, min |-> pMin.n, hasMax |-> hasMax, max |-> pMax.n,
             hasDef |-> hasDef, def |-> pDef.n]
    IN  Checked(IF hasMin THEN parseInt32(tags["min"]) ELSE [n |-> 0, err |-> NoErr],
                IF hasMax THEN parseInt32(tags["max"]) ELSE [n |-> 0, err |-> NoErr],
                IF hasDef THEN parseInt32(tags["def"]) ELSE [n |-> 0, err |-> NoErr])

\* ApplyMinMax with the max branch writing min instead of max.
ApplyMinMax_LowersToMin(c, d) ==
    LET needMin == d.hasMin /\ d.min > c.v
        afterMin == IF needMin /\ CanSet(c) THEN d.min ELSE c.v
        needMax == d.hasMax /\ d.max < afterMin
    IN  IF needMin /\ ~CanSet(c) THEN [v |-> c.v, panic |-> TRUE]
        ELSE IF needMax /\ ~CanSet(c) THEN [v |-> afterMin, panic |-> TRUE]
        ELSE [v |-> IF needMax THEN d.min ELSE afterMin, panic |-> FALSE]

\* "Apply min and max transforms" on an integer cell c holding c.v.  SetInt
\* panics on a cell that is not settable.
ApplyMinMax(c, d) ==
    LET needMin == d.hasMin /\ d.min > c.v
        afterMin == IF needMin /\ CanSet(c) THEN d.min ELSE c.v
        needMax == d.hasMax /\ d.max < afterMin
    IN  IF needMin /\ ~CanSet(c) THEN [v |-> c.v, panic |-> TRUE]
        ELSE IF needMax /\ ~CanSet(c) THEN [v |-> afterMin, panic |-> TRUE]
        ELSE [v |-> IF needMax THEN d.max ELSE afterMin, panic |-> FALSE]

\* Int32Element leaving every nil pointer nil, with or without a default.
Int32Element_NoDefault(e, d) ==
    LET isPtr == Kind(e.t) = "Ptr"
        Clamped(r) == [v |-> IF isPtr THEN <<r.v>> ELSE r.v,
                       returned |-> FALSE, panic |-> r.panic]
    IN  IF isPtr /\ IsNil(e)
        THEN [v |-> e.v, returned |-> TRUE, panic |-> FALSE]
        ELSE Clamped(ApplyMinMax(IF isPtr THEN Elem(e) ELSE e, d))

\* One iteration of the loop over fields: the new value of the element,
\* whether the function returned from inside the loop, whether it panicked.
\* Set(&def) panics when the element is not settable or is not a *int32.
Int32Element(e, d) ==
    LET isPtr == Kind(e.t) = "Ptr"
        Clamped(r) == [v |-> IF isPtr THEN <<r.v>> ELSE r.v,
                       returned |-> FALSE, panic |-> r.panic]
    IN  IF isPtr /\ IsNil(e) /\ d.hasDef
        THEN IF CanSet(e) /\ e.t = "*int32"
             THEN [v |-> <<d.def>>, returned |-> TRUE, panic |-> FALSE]
             ELSE [v |-> e.v, returned |-> FALSE, panic |-> TRUE]
        ELSE IF isPtr /\ IsNil(e) /\ ~d.hasDef
        THEN [v |-> e.v, returned |-> TRUE, panic |-> FALSE]
        ELSE Clamped(ApplyMinMax(IF isPtr THEN Elem(e) ELSE e, d))

\* The loop "for _, field := range fields": vals holds the element values,
\* i is the next element.
RECURSIVE Int32Loop(_, _, _, _)
Int32Loop(fields, d, i, vals) ==
    LET Step(r) ==
            IF r.panic THEN [vals |-> [vals EXCEPT ![i] = r.v], panic |-> TRUE]
            ELSE IF r.returned THEN [vals |-> [vals EXCEPT ![i] = r.v], panic |-> FALSE]
            ELSE Int32Loop(fields, d, i + 1, [vals EXCEPT ![i] = r.v])
    IN  IF i > Len(fields) THEN [vals |-> vals, panic |-> FALSE]
        ELSE Step(Int32Element(fields[i], d))

\* sanitizeInt32Field on the field view f = structValue.Field(idx) with the
\* parsed tags: the field's new value, the returned error, or a panic.
sanitizeInt32Field(tags, f) ==
    LET Looped(h, via, d) ==
            LET isSlice == Kind(h.t) = "Slice"
                Result(r) ==
                    LET hv == IF isSlice THEN r.vals ELSE r.vals[1]
                    IN  [val |-> IF via = 0 THEN hv ELSE <<hv>>, err |-> NoErr,
                         panic |-> r.panic]
                Over(fields) ==
                    Result(Int32Loop(fields, d, 1, [i \in 1..Len(fields) |-> fields[i].v]))
            IN  IF d.err # NoErr THEN [val |-> f.v, err |-> d.err, panic |-> FALSE]
                ELSE Over(IF isSlice THEN [i \in 1..Len(h.v) |-> Index(h, i)] ELSE <<h>>)
        Opened(g) ==
            LET deref == Kind(g.x.t) = "Ptr" /\ ~IsNil(g.x)
            IN  Looped(IF deref THEN Elem(g.x) ELSE g.x,
                       IF deref THEN g.via + 1 ELSE g.via,
                       Int32Directives(tags))
    IN  Opened(GetUnexportedField(f))

\* ------------------------------------------------------ dispatch table
\* var fieldSanFns: canonical type name -> sanitizer function.
BuiltinFns ==
    [t \in {"string", "[]string", "*[]string", "*string", "[]*string", "*[]*string"} |-> "sanitizeStrField"] @@
    [t \in {"int", "[]int", "*[]int", "*int", "[]*int", "*[]*int"} |-> "sanitizeIntField"] @@
    [t \in {"int8", "[]int8", "*[]int8", "*int8", "[]*int8", "*[]*int8"} |-> "sanitizeInt8Field"] @@
    [t \in {"int16", "[]int16", "*[]int16", "*int16", "[]*int16", "*[]*int16"} |-> "sanitizeInt16Field"] @@
    [t \in {"int32", "[]int32", "*[]int32", "*int32", "[]*int32", "*[]*int32"} |-> "sanitizeInt32Field"] @@
    [t \in {"int64", "[]int64", "*[]int64", "*int64", "[]*int64", "*[]*int64"} |-> "sanitizeInt64Field"] @@
    [t \in {"uint", "[]uint", "*[]uint", "*uint", "[]*uint", "*[]*uint"} |-> "sanitizeUintField"] @@
    [t \in {"uint8", "[]uint8", "*[]uint8", "*uint8", "[]*uint8", "*[]*uint8"} |-> "sanitizeUint8Field"] @@
    [t \in {"uint16", "[]uint16", "*[]uint16", "*uint16", "[]*uint16", "*[]*uint16"} |-> "sanitizeUint16Field"] @@
    [t \in {"uint32", "[]uint32", "*[]uint32", "*uint32", "[]*uint32", "*[]*uint32"} |-> "sanitizeUint32Field"] @@
    [t \in {"uint64", "[]uint64", "*[]uint64", "*uint64", "[]*uint64", "*[]*uint64"} |-> "sanitizeUint64Field"] @@
    [t \in {"float32", "[]float32", "*[]float32", "*float32", "[]*float32", "*[]*float32"} |-> "sanitizeFloat32Field"] @@
    [t \in {"float64", "[]float64", "*[]float64", "*float64", "[]*float64", "*[]*float64"} |-> "sanitizeFloat64Field"] @@
    [t \in {"bool", "[]bool", "*[]bool", "*bool", "[]*bool", "*[]*bool"} |-> "sanitizeBoolField"]

\* Value.CanConvert(reflect.TypeOf("")): strings and every integer kind
\* convert to string.  No type of the model converts to the reflect type
\* descriptor the second test of getFieldFunc asks for.
CanConvertToString(t) == Kind(t) \in {"String", "Int", "Int32"}

\* getFieldFunc: the exact entry, else the text sanitizer for a type that
\* converts to text, else an error.
getFieldFunc(value, funcMap) ==
    IF value.t \in DOMAIN funcMap THEN [fn |-> funcMap[value.t], err |-> NoErr]
    ELSE IF CanConvertToString(value.t) THEN [fn |-> funcMap["string"], err |-> NoErr]
    ELSE [fn |-> "", err |-> <<"cannot get sanitize function">>]

\* reflect.ValueOf(i) of an interface value i = [t, v]; the untyped nil
\* gives the zero Value.
ValueOf(i) ==
    IF i.t = "nil" THEN ZeroValue ELSE [t |-> i.t, v |-> i.v, addr |-> FALSE, ro |-> FALSE]

\* getValue: a pointer is followed, anything else is taken as it is.
getValue(sanType) ==
    IF Kind(ValueOf(sanType).t) = "Ptr" THEN Elem(ValueOf(sanType)) ELSE ValueOf(sanType)

\* GetSanitizeByType: value.Type() panics on the zero Value (a nil example);
\* otherwise the exact entry or an error.
GetSanitizeByType(sanType, funcMap) ==
    LET value == getValue(sanType)
    IN  IF value.t = "invalid" THEN [fn |-> "", err |-> NoErr, panic |-> TRUE]
        ELSE IF value.t \in DOMAIN funcMap
        THEN [fn |-> funcMap[value.t], err |-> NoErr, panic |-> FALSE]
        ELSE [fn |-> "", err |-> <<"sanitize function not found">>, panic |-> FALSE]

\* The sequence sanitizer that runs before the dispatch on a sequence
\* field: the records of the model carry no directive for it.
sanitizeSliceField(tags, f) == [val |-> f.v, err |-> NoErr, panic |-> FALSE]

\* Calling the resolved sanitizer sanFn(s, v, i).  Sanitizers other than
\* the int32 one meet only fields without directives here and leave them
\* as they are.
CallSanFn(fn, tags, f) ==
    IF fn = "sanitizeInt32Field" THEN sanitizeInt32Field(tags, f)
    ELSE [val |-> f.v, err |-> NoErr, panic |-> FALSE]

\* ------------------------------------------------------ traversal engine
\* range over MapKeys(): the keys of m in the order ord of this call.
KeysInOrder(m, ord) == SelectSeq(ord, LAMBDA k : k \in DOMAIN m)

RECURSIVE sanitizeRec(_, _, _, _)
RECURSIVE RecFields(_, _, _, _, _, _, _)
RECURSIVE RecSlice(_, _, _, _, _, _, _)
RECURSIVE RecMap(_, _, _, _, _, _, _, _)

\* "for i := 0; i < field.Len(); i++" over the slice view x: elements that
\* are structs or non-nil pointers to structs are sanitized recursively.
RecSlice(sch, fns, x, ord, j, vals, log) ==
    LET Visit(e) ==
            LET isPtr == Kind(e.t) = "Ptr"
                Done(r) ==
                    LET vals2 == [vals EXCEPT ![j] = IF isPtr THEN <<r.val>> ELSE r.val]
                    IN  IF r.panic \/ r.err # NoErr
                        THEN [val |-> vals2, err |-> r.err, panic |-> r.panic,
                              log |-> log \o r.log]
                        ELSE RecSlice(sch, fns, x, ord, j + 1, vals2, log \o r.log)
                Into(f) ==
                    IF Kind(f.t) # "Struct" THEN RecSlice(sch, fns, x, ord, j + 1, vals, log)
                    ELSE Done(sanitizeRec(sch, fns, f, ord))
            IN  Into(IF isPtr THEN Elem(e) ELSE e)
    IN  IF j > Len(vals) THEN [val |-> vals, err |-> NoErr, panic |-> FALSE, log |-> log]
        ELSE Visit(Index([x EXCEPT !.v = vals], j))

\* "for _, k := range field.MapKeys()" over the map view x, keys ks.
RecMap(sch, fns, x, ord, ks, j, m, log) ==
    LET Visit(e) ==
            LET isPtr == Kind(e.t) = "Ptr"
                \* the copy MapIndex returned cannot be written itself; what
                \* it reaches through pointers and slices is shared with the
                \* stored value
                Done(r) ==
                    LET m2 == [m EXCEPT ![ks[j]] = IF isPtr THEN <<r.val>> ELSE r.val]
                    IN  IF r.panic \/ r.err # NoErr
                        THEN [val |-> m2, err |-> r.err, panic |-> r.panic,
                              log |-> log \o r.log]
                        ELSE RecMap(sch, fns, x, ord, ks, j + 1, m2, log \o r.log)
                Into(f) ==
                    IF Kind(f.t) # "Struct" THEN RecMap(sch, fns, x, ord, ks, j + 1, m, log)
                    ELSE Done(sanitizeRec(sch, fns, f, ord))
            IN  Into(IF isPtr THEN Elem(e) ELSE e)
    IN  IF j > Len(ks) THEN [val |-> m, err |-> NoErr, panic |-> FALSE, log |-> log]
        ELSE Visit(MapIndex([x EXCEPT !.v = m], ks[j]))

\* The structural recursion of one field (the part of the loop body after
\* the typed sanitizer), on the field view f.
RecInto(sch, fns, f, ord) ==
    LET fkind == Kind(f.t)
        Wrapped(r) == [r EXCEPT !.val = IF fkind = "Ptr" THEN <<r.val>> ELSE r.val]
        Into(inner) ==
            LET ikind == Kind(inner.t)
            IN  IF ikind = "Struct" THEN Wrapped(sanitizeRec(sch, fns, inner, ord))
                ELSE IF ikind = "Slice"
                THEN Wrapped(RecSlice(sch, fns, inner, ord, 1, inner.v, <<>>))
                ELSE IF ikind = "Map"
                THEN Wrapped(RecMap(sch, fns, inner, ord, KeysInOrder(inner.v, ord), 1,
                                    inner.v, <<>>))
                ELSE [val |-> f.v, err |-> NoErr, panic |-> FALSE, log |-> <<>>]
    IN  Into(IF fkind = "Ptr" THEN Elem(f) ELSE f)

\* RecFields going on to the next field after a typed sanitizer returned an
\* error, and returning that error at the end.
RecFields_KeepsGoing(sch, fns, sv, ord, i, vals, log) ==
    LET fd == sch[sv.t][i]
        Unchanged(f) == [val |-> f.v, err |-> NoErr, panic |-> FALSE]
        Aborted(r, lg) ==
            [val |-> [vals EXCEPT ![i] = r.val], err |-> r.err, panic |-> r.panic,
             log |-> lg]
        Kept(rest, err) == IF rest.panic THEN rest ELSE [rest EXCEPT !.err = err]
        Third(s3, lg) ==
            IF s3.panic \/ s3.err # NoErr THEN Aborted(s3, lg \o s3.log)
            ELSE RecFields(sch, fns, sv, ord, i + 1, [vals EXCEPT ![i] = s3.val],
                           lg \o s3.log)
        Second(field, ff) ==
            LET lg == IF ff.err = NoErr THEN Append(log, [fn |-> ff.fn, field |-> fd.name])
                      ELSE log
                After(s2) ==
                    IF s2.panic THEN Aborted(s2, lg)
                    ELSE IF s2.err # NoErr
                    THEN Kept(RecFields(sch, fns, sv, ord, i + 1, vals, lg), s2.err)
                    ELSE Third(RecInto(sch, fns, [field EXCEPT !.v = s2.val], ord), lg)
            IN  After(IF ff.err = NoErr THEN CallSanFn(ff.fn, fd.tags, field)
                      ELSE Unchanged(field))
        First(field) ==
            LET fkind == Kind(field.t)
                isPtrToSlice == fkind = "Ptr" /\ Kind(Elem(field).t) = "Slice"
                isSlice == fkind = "Slice"
                After(s1) ==
                    IF s1.panic \/ s1.err # NoErr THEN Aborted(s1, log)
                    ELSE Second([field EXCEPT !.v = s1.val],
                                getFieldFunc([field EXCEPT !.v = s1.val], fns))
            IN  After(IF isSlice \/ isPtrToSlice THEN sanitizeSliceField(fd.tags, field)
                      ELSE Unchanged(field))
    IN  IF i > Len(sch[sv.t])
        THEN [val |-> vals, err |-> NoErr, panic |-> FALSE, log |-> log]
        ELSE First(Field(sv, fd, vals[i]))

\* The field loop of sanitizeRec from field i on; vals are the field values
\* of the struct view sv so far, log the sanitizer calls made so far.
RecFields(sch, fns, sv, ord, i, vals, log) ==
    LET fd == sch[sv.t][i]
        Unchanged(f) == [val |-> f.v, err |-> NoErr, panic |-> FALSE]
        Aborted(r, lg) ==
            [val |-> [vals EXCEPT ![i] = r.val], err |-> r.err, panic |-> r.panic,
             log |-> lg]
        \* the structural recursion, then the next field
        Third(s3, lg) ==
            IF s3.panic \/ s3.err # NoErr THEN Aborted(s3, lg \o s3.log)
            ELSE RecFields(sch, fns, sv, ord, i + 1, [vals EXCEPT ![i] = s3.val],
                           lg \o s3.log)
        \* the typed sanitizer, when the dispatch resolves one
        Second(field, ff) ==
            LET lg == IF ff.err = NoErr THEN Append(log, [fn |-> ff.fn, field |-> fd.name])
                      ELSE log
                After(s2) ==
                    IF s2.panic \/ s2.err # NoErr THEN Aborted(s2, lg)
                    ELSE Third(RecInto(sch, fns, [field EXCEPT !.v = s2.val], ord), lg)
            IN  After(IF ff.err = NoErr THEN CallSanFn(ff.fn, fd.tags, field)
                      ELSE Unchanged(field))
        \* the sequence sanitizer, for a sequence or a pointer to one
        First(field) ==
            LET fkind == Kind(field.t)
                isPtrToSlice == fkind = "Ptr" /\ Kind(Elem(field).t) = "Slice"
                isSlice == fkind = "Slice"
                After(s1) ==
                    IF s1.panic \/ s1.err # NoErr THEN Aborted(s1, log)
                    ELSE Second([field EXCEPT !.v = s1.val],
                                getFieldFunc([field EXCEPT !.v = s1.val], fns))
            IN  After(IF isSlice \/ isPtrToSlice THEN sanitizeSliceField(fd.tags, field)
                      ELSE Unchanged(field))
    IN  IF i > Len(sch[sv.t])
        THEN [val |-> vals, err |-> NoErr, panic |-> FALSE, log |-> log]
        ELSE First(Field(sv, fd, vals[i]))

\* sanitizeRec(v) on the struct view sv.
\* v.Type().NumField() panics when v is not a struct.
sanitizeRec(sch, fns, sv, ord) ==
    IF Kind(sv.t) # "Struct"
    THEN [val |-> sv.v, err |-> NoErr, panic |-> TRUE, log |-> <<>>]
    ELSE RecFields(sch, fns, sv, ord, 1, sv.v, <<>>)

\* ------------------------------------------------------------ entry point
\* errors.Wrap(err, message): the message in front of the wrapped error.
Wrap(err, message) == message \o err

\* isValid without the test that the struct can be set.
isValid_NoCanSet(st) ==
    LET value == IF Kind(ValueOf(st).t) = "Ptr" THEN Elem(ValueOf(st)) ELSE ValueOf(st)
    IN  IF st.t = "nil" THEN FALSE
        ELSE IF Kind(value.t) # "Struct" THEN FALSE
        ELSE IF Kind(st.t) = "Ptr" /\ st.v = Nil THEN FALSE
        ELSE TRUE

\* isValid(st): a non-nil interface whose (pointed-to) value is a settable
\* struct, and which is not the zero value of its type.
isValid(st) ==
    LET value == IF Kind(ValueOf(st).t) = "Ptr" THEN Elem(ValueOf(st)) ELSE ValueOf(st)
    IN  IF st.t = "nil" THEN FALSE
        ELSE IF Kind(value.t) # "Struct" THEN FALSE
        ELSE IF ~CanSet(value) \/ (Kind(st.t) = "Ptr" /\ st.v = Nil) THEN FALSE
        ELSE TRUE

RECURSIVE Sanitize(_, _, _, _)
RECURSIVE IterLoop(_, _, _, _, _, _, _, _)

\* The element loops of iterable over the container view c: ks are the
\* indexes or keys still to visit, vals the container's value so far, err
\* the error accumulated so far.  iErr.Error() on a nil iErr is a nil
\* dereference.
IterLoop(sch, fns, c, ord, ks, vals, err, log) ==
    LET k == Head(ks)
        Step(r) ==
            LET vals2 == [vals EXCEPT ![k] = r.val]
                log2 == log \o r.log
            IN  IF r.panic THEN [val |-> vals2, err |-> err, panic |-> TRUE, log |-> log2]
                ELSE IF err = NoErr
                THEN IterLoop(sch, fns, c, ord, Tail(ks), vals2, r.err, log2)
                ELSE IF r.err = NoErr
                THEN [val |-> vals2, err |-> err, panic |-> TRUE, log |-> log2]
                ELSE IterLoop(sch, fns, c, ord, Tail(ks), vals2, Wrap(err, r.err), log2)
    IN  IF ks = <<>> THEN [val |-> vals, err |-> err, panic |-> FALSE, log |-> log]
        ELSE Step(Sanitize(sch, fns, [t |-> ElemType(c.t), v |-> vals[k]], ord))

\* iterable(st): whether st is (a pointer to) a sequence or mapping, after
\* Sanitize has been called on every element or value.
iterable(sch, fns, st, ord) ==
    LET isPtr == Kind(ValueOf(st).t) = "Ptr"
        Looped(r) ==
            [iter |-> TRUE, val |-> IF isPtr THEN <<r.val>> ELSE r.val,
             err |-> r.err, panic |-> r.panic, log |-> r.log]
        Over(value) ==
            IF Kind(value.t) = "Slice"
            THEN Looped(IterLoop(sch, fns, value, ord, [i \in 1..Len(value.v) |-> i],
                                 value.v, NoErr, <<>>))
            ELSE IF Kind(value.t) = "Map"
            THEN Looped(IterLoop(sch, fns, value, ord, KeysInOrder(value.v, ord),
                                 value.v, NoErr, <<>>))
            ELSE [iter |-> FALSE, val |-> st.v, err |-> NoErr, panic |-> FALSE,
                  log |-> <<>>]
    IN  Over(getValue(st))

\* Sanitize(o) on the interface value o = [t, v]: the value o holds after
\* the call, the returned error, whether the call panicked, and the field
\* sanitizers it invoked.  reflect.ValueOf(o).Elem() panics when o is
\* neither a pointer nor an interface.
Sanitize(sch, fns, o, ord) ==
    LET Rec(r) == [val |-> <<r.val>>, err |-> r.err, panic |-> r.panic, log |-> r.log]
        After(it) ==
            IF it.panic \/ it.err # NoErr
            THEN [val |-> it.val, err |-> it.err, panic |-> it.panic, log |-> it.log]
            ELSE IF isValid(o) /\ ~it.iter
            THEN IF Kind(ValueOf(o).t) # "Ptr"
                 THEN [val |-> it.val, err |-> NoErr, panic |-> TRUE, log |-> it.log]
                 ELSE Rec(sanitizeRec(sch, fns, Elem(ValueOf(o)), ord))
            ELSE [val |-> it.val, err |-> NoErr, panic |-> FALSE, log |-> it.log]
    IN  After(iterable(sch, fns, o, ord))

\* ---------------------------------------------------------------- state
VARIABLES
    schema,         \* the struct types: type name -> field descriptors
    fieldSanFns,    \* the dispatch table
    orig,           \* the value of the argument before the first call
    o,              \* the argument of Sanitize, [t, v], as it is now
    hist,           \* one entry per Sanitize call made: the outcome, the value
                    \* left behind, the map order and the table it ran with
    lookup          \* the outcome of the latest GetSanitizeByType

vars == <<schema, fieldSanFns, orig, o, hist, lookup>>

NoLookup == [t |-> "", status |-> "none", fn |-> "", fns |-> BuiltinFns]

\* The keys of the mappings of the model.
KeyNames == <<"a", "b">>
Keys == {KeyNames[i] : i \in DOMAIN KeyNames}

Perms(S) == {p \in [1..Cardinality(S) -> S] : \A x \in S : \E i \in DOMAIN p : p[i] = x}

OptOf(S) == {Nil} \cup {<<x>> : x \in S}
SeqsUpTo(S) == UNION {[1..k -> S] : k \in 0..MaxLen}
MapsOver(S) == UNION {[K -> S] : K \in SUBSET Keys}

\* The values of type t, given the values of the named leaf types.
RECURSIVE ValuesOf(_, _)
ValuesOf(t, leaf) ==
    CASE Kind(t) = "Ptr" -> OptOf(ValuesOf(ElemType(t), leaf))
      [] Kind(t) = "Slice" -> SeqsUpTo(ValuesOf(ElemType(t), leaf))
      [] Kind(t) = "Map" -> MapsOver(ValuesOf(ElemType(t), leaf))
      [] OTHER -> leaf[t]

FieldDesc(name, type, tags, exported) ==
    [name |-> name, type |-> type, tags |-> tags, exported |-> exported]

MapTypes ==
    {t \in TypeNames : Kind(t) = "Map" \/ (Kind(t) = "Ptr" /\ Kind(ElemType(t)) = "Map")}

\* The orders in which a call may range over the keys of a mapping: every
\* order when the argument or a field of Outer is a mapping, which Go
\* visits in an order of its choosing.
MapOrders(sch, arg) ==
    IF arg.t \in MapTypes \/ \E i \in DOMAIN sch.Outer : sch.Outer[i].type \in MapTypes
    THEN Perms(Keys)
    ELSE {[i \in 1..Cardinality(Keys) |-> KeyNames[i]]}

Status(r) == IF r.panic THEN "panic" ELSE IF r.err # NoErr THEN "error" ELSE "ok"

\* A call s.Sanitize(o) by the program, on the record it holds.  A panic
\* ends the program.
SanitizeCall ==
    /\ Len(hist) < MaxCalls
    /\ \A i \in DOMAIN hist : hist[i].status # "panic"
    /\ lookup.status # "panic"
    /\ \E ord \in MapOrders(schema, o) :
         \E r \in {Sanitize(schema, fieldSanFns, o, ord)} :
             /\ o' = [o EXCEPT !.v = r.val]
             /\ hist' = Append(hist, [status |-> Status(r), err |-> r.err,
                                      log |-> r.log, val |-> r.val, ord |-> ord,
                                      fns |-> fieldSanFns])
    /\ UNCHANGED <<schema, fieldSanFns, orig, lookup>>

InnerFields == <<FieldDesc("N", "int32", NoTags, TRUE)>>

\* The elements of a sequence field: below every min, zero, above every max.
SeqVals == {0 - 1, 0, MaxVal}

\* The values of a field of the int32 family.
Int32FieldValues(t) ==
    IF t \in {"int32", "*int32"} THEN ValuesOf(t, [int32 |-> Vals])
    ELSE ValuesOf(t, [int32 |-> SeqVals])

\* A record with one unexported field F of the int32 family.
InitField ==
    /\ \E t \in Int32Family : \E tg \in TagSets :
         \E fv \in Int32FieldValues(t) :
           /\ schema = [Outer |-> <<FieldDesc("F", t, tg, FALSE)>>, Inner |-> InnerFields]
           /\ o = [t |-> "*Outer", v |-> << <<fv>> >>]
    /\ orig = o.v
    /\ fieldSanFns = BuiltinFns
    /\ hist = <<>>
    /\ lookup = NoLookup

SpecField == InitField /\ [][SanitizeCall]_vars

\* The tag sets over the keys min and max alone.
BoundTagSets == {tg \in TagSets : "def" \notin DOMAIN tg}

\* A struct Outer with one int32 field A.
OuterOfA == {<<a>> : a \in Vals}

\* The arguments a caller passes to Sanitize: the untyped nil, a pointer to
\* a record (nil or not), a record by value, a pointer to an integer, and
\* sequences and mappings of records.
RootArgs ==
    LET leaf == [Outer |-> OuterOfA, int32 |-> Vals]
    IN  {[t |-> "nil", v |-> Nil]}
        \cup UNION {{[t |-> ty, v |-> x] : x \in ValuesOf(ty, leaf)} :
                      ty \in {"*Outer", "Outer", "*int32", "[]*Outer", "[]Outer",
                              "*[]*Outer", "map[string]*Outer"}}

InitRoot ==
    /\ \E tg \in BoundTagSets : \E arg \in RootArgs :
         /\ schema = [Outer |-> <<FieldDesc("A", "int32", tg, TRUE)>>, Inner |-> InnerFields]
         /\ o = arg
    /\ orig = o.v
    /\ fieldSanFns = BuiltinFns
    /\ hist = <<>>
    /\ lookup = NoLookup

SpecRoot == InitRoot /\ [][SanitizeCall]_vars

\* Values on either side of the bounds the traversal records declare.
TravVals == {0, MaxVal}

\* max=0 lowers MaxVal to 0; min=1,max=0 is rejected.
GoodTags == [max |-> DirText(0)]
TravTags == {GoodTags, [min |-> DirText(1), max |-> DirText(0)]}

KidTypes == {"Inner", "*Inner", "[]Inner", "[]*Inner", "*[]Inner", "*[]*Inner",
             "map[string]Inner", "map[string]*Inner", "*map[string]Inner",
             "*map[string]*Inner"}

\* The declarations of Inner.N: an exported int32, or a *int32 that is
\* exported or not.
InnerDecls == {<<"int32", TRUE>>, <<"*int32", TRUE>>, <<"*int32", FALSE>>}

\* A record Outer{A int32; Kids <container of Inner>; X complex128; B int32}
\* with Inner{N}.
InitTraverse ==
    /\ \E tA \in TravTags : \E tB \in TravTags :
       \E tN \in TravTags : \E kt \in KidTypes : \E nd \in InnerDecls :
       \E a \in TravVals : \E b \in TravVals :
       \E kids \in ValuesOf(kt, [Inner |-> {<<n>> : n \in ValuesOf(nd[1], [int32 |-> TravVals])}]) :
         /\ schema = [Outer |-> <<FieldDesc("A", "int32", tA, TRUE),
                                  FieldDesc("Kids", kt, NoTags, TRUE),
                                  FieldDesc("X", "complex128", NoTags, TRUE),
                                  FieldDesc("B", "int32", tB, TRUE)>>,
                      Inner |-> <<FieldDesc("N", nd[1], tN, nd[2])>>]
         /\ o = [t |-> "*Outer", v |-> << <<a, kids, 0, b>> >>]
    /\ orig = o.v
    /\ fieldSanFns = BuiltinFns
    /\ hist = <<>>
    /\ lookup = NoLookup

SpecTraverse == InitTraverse /\ [][SanitizeCall]_vars

\* RegisterSanitizer(sanType, function): the entry for the type of the
\* example (of its pointee, for a pointer) is set.  value.Type() panics on
\* the zero Value a nil example gives; a panic ends the program.
RegisterSanitizer(sanType, function) ==
    /\ lookup.status # "panic"
    /\ \A i \in DOMAIN hist : hist[i].status # "panic"
    /\ IF getValue(sanType).t = "invalid"
       THEN /\ lookup' = [t |-> "invalid", status |-> "panic", fn |-> "",
                          fns |-> fieldSanFns]
            /\ UNCHANGED fieldSanFns
       ELSE /\ fieldSanFns' = (getValue(sanType).t :> function) @@ fieldSanFns
            /\ UNCHANGED lookup
    /\ UNCHANGED <<schema, orig, o, hist>>

\* A call s.GetSanitizeByType(sanType) by the program.
GetSanitizeByTypeCall(sanType) ==
    /\ lookup.status # "panic"
    /\ \A i \in DOMAIN hist : hist[i].status # "panic"
    /\ \E r \in {GetSanitizeByType(sanType, fieldSanFns)} :
         lookup' = [t |-> getValue(sanType).t,
                    status |-> IF r.panic THEN "panic"
                               ELSE IF r.err # NoErr THEN "error" ELSE "ok",
                    fn |-> r.fn, fns |-> fieldSanFns]
    /\ UNCHANGED <<schema, fieldSanFns, orig, o, hist>>

\* The example values the program passes to the two dispatch operations: a
\* custom text type by value and by pointer (nil or not), and a type that
\* is neither in the table nor convertible to text.
Examples ==
    {[t |-> "MyStr", v |-> 0], [t |-> "*MyStr", v |-> <<0>>], [t |-> "*MyStr", v |-> Nil],
     [t |-> "complex128", v |-> 0], [t |-> "int32", v |-> 0]}

CustomFns == {"customSanitizer"}

\* A record with one field F without directives, of a type with an entry,
\* of a text type or an integer type without one, or of a type that is
\* neither.
InitDispatch ==
    /\ \E t \in {"int32", "MyStr", "MyInt", "complex128"} : \E fv \in TravVals :
         /\ schema = [Outer |-> <<FieldDesc("F", t, NoTags, TRUE)>>, Inner |-> InnerFields]
         /\ o = [t |-> "*Outer", v |-> << <<fv>> >>]
    /\ orig = o.v
    /\ fieldSanFns = BuiltinFns
    /\ hist = <<>>
    /\ lookup = NoLookup

NextDispatch ==
    \/ SanitizeCall
    \/ \E ex \in Examples : \E fn \in CustomFns : RegisterSanitizer(ex, fn)
    \/ \E ex \in Examples : GetSanitizeByTypeCall(ex)

SpecDispatch == InitDispatch /\ [][NextDispatch]_vars

\* ------------------------------------------- properties: one int32 field
\* The descriptor of the field F, its value before the first call and its
\* value after the first call.
FDesc == schema.Outer[1]
FBefore == orig[1][1]
FAfter == hist[1].val[1][1]

Called == Len(hist) >= 1
CalledOk == Len(hist) >= 1 /\ hist[1].status = "ok"

\* The field declares directive k with the number n.
HasDir(k, n) == k \in DOMAIN FDesc.tags /\ FDesc.tags[k] = DirText(n)
NoDir(k) == k \notin DOMAIN FDesc.tags

Min2(x, y) == IF x < y THEN x ELSE y
Max2(x, y) == IF x > y THEN x ELSE y
Clamp(v, a, b) == IF v < a THEN a ELSE IF v > b THEN b ELSE v

\* The integer a plain or non-nil pointer int32 field holds.
Cell(t, fv) == IF t = "*int32" THEN fv[1] ELSE fv

PlainOrNonNil ==
    \/ FDesc.type = "int32"
    \/ FDesc.type = "*int32" /\ FBefore # Nil

\* C1: after a successful Sanitize, a plain or non-nil pointer int32 field
\* with min=a, max=b (0 <= a <= b) holds clamp(v, a, b); with only min it
\* holds max(v, a), with only max it holds min(v, b).
C1_Clamp ==
    (CalledOk /\ PlainOrNonNil) =>
        LET v == Cell(FDesc.type, FBefore)
            w == Cell(FDesc.type, FAfter)
        IN  \A a \in DirNums : \A b \in DirNums :
              /\ (HasDir("min", a) /\ HasDir("max", b) /\ 0 <= a /\ a <= b)
                    => w = Clamp(v, a, b)
              /\ (HasDir("min", a) /\ NoDir("max") /\ 0 <= a) => w = Max2(v, a)
              /\ (HasDir("max", b) /\ NoDir("min") /\ 0 <= b) => w = Min2(v, b)

\* A value behind a pointer that lies above max, lowered to max.
C1_Witness ==
    /\ CalledOk
    /\ FDesc.type = "*int32"
    /\ HasDir("min", 0) /\ HasDir("max", 1)
    /\ FBefore = <<MaxVal>>
    /\ FAfter = <<1>>

\* C2: a nil *int32 field with a valid def=d points at d after Sanitize;
\* without a def it is still nil, whatever min and max say.
C2_NilPointer ==
    (Called /\ FDesc.type = "*int32" /\ FBefore = Nil) =>
        /\ \A d \in DirNums : (HasDir("def", d) /\ hist[1].status = "ok") => FAfter = <<d>>
        /\ NoDir("def") => FAfter = Nil

\* A nil pointer defaulted under bounds that admit the default.
C2_Witness ==
    /\ CalledOk
    /\ FDesc.type = "*int32"
    /\ FBefore = Nil
    /\ HasDir("def", 1) /\ HasDir("min", 0) /\ HasDir("max", 1)
    /\ FAfter = <<1>>

\* The directive k is present in tags and its text is one of the numbers.
ParsesIn(tags, k) == k \in DOMAIN tags /\ \E n \in DirNums : tags[k] = DirText(n)
NumIn(tags, k) == CHOOSE n \in DirNums : tags[k] = DirText(n)

\* The directives are rejected by the validation rules: an unparseable
\* text, max < min, a negative bound, or def outside the bounds.
BadTags(tags) ==
    \/ \E k \in DOMAIN tags : ~ParsesIn(tags, k)
    \/ ParsesIn(tags, "min") /\ ParsesIn(tags, "max") /\ NumIn(tags, "max") < NumIn(tags, "min")
    \/ ParsesIn(tags, "min") /\ NumIn(tags, "min") < 0
    \/ ParsesIn(tags, "max") /\ NumIn(tags, "max") < 0
    \/ ParsesIn(tags, "def") /\ ParsesIn(tags, "min") /\ NumIn(tags, "def") < NumIn(tags, "min")
    \/ ParsesIn(tags, "def") /\ ParsesIn(tags, "max") /\ NumIn(tags, "def") > NumIn(tags, "max")

BadDirectives == BadTags(FDesc.tags)

\* C3: with rejected directives Sanitize returns an error and the field is
\* what it was before the call, whatever its shape and value.
C3_ValidateFirst ==
    (Called /\ BadDirectives) => (hist[1].status = "error" /\ hist[1].val = orig)

\* max < min on a field whose value lies above max: an error, no clamping.
C3_Witness ==
    /\ Called
    /\ FDesc.type = "[]int32"
    /\ HasDir("min", 1) /\ HasDir("max", 0)
    /\ FBefore = <<MaxVal, 0>>
    /\ hist[1].status = "error"
    /\ FAfter = FBefore

\* C4: a second successful Sanitize leaves the record as the first left it.
C4_Idempotent ==
    (Len(hist) >= 2 /\ hist[1].status = "ok" /\ hist[2].status = "ok")
        => hist[2].val = hist[1].val

\* What the numeric policy makes, under tags, of an integer v and of an
\* element e that is an integer or a pointer to one.
ExpectedCell(tags, v) ==
    LET v1 == IF ParsesIn(tags, "min") /\ v < NumIn(tags, "min") THEN NumIn(tags, "min")
              ELSE v
    IN  IF ParsesIn(tags, "max") /\ v1 > NumIn(tags, "max") THEN NumIn(tags, "max") ELSE v1

ExpectedElem(tags, e, isPtr) ==
    IF ~isPtr THEN ExpectedCell(tags, e)
    ELSE IF e = Nil THEN (IF ParsesIn(tags, "def") THEN <<NumIn(tags, "def")>> ELSE Nil)
    ELSE <<ExpectedCell(tags, e[1])>>

\* C9: in a sequence-typed int32 field every element is sanitized on its
\* own: clamped when it holds a value, defaulted or left nil when it is nil.
C9_PerElement ==
    (CalledOk /\ Kind(FDesc.type) \in {"Slice", "Ptr"} /\ FDesc.type # "*int32"
       /\ ~(Kind(FDesc.type) = "Ptr" /\ FBefore = Nil)) =>
        LET before == IF Kind(FDesc.type) = "Ptr" THEN FBefore[1] ELSE FBefore
            after == IF Kind(FDesc.type) = "Ptr" THEN FAfter[1] ELSE FAfter
            ptrElems == FDesc.type \in {"[]*int32", "*[]*int32"}
        IN  /\ Len(after) = Len(before)
            /\ \A i \in 1..Len(before) : after[i] = ExpectedElem(FDesc.tags, before[i], ptrElems)

\* ------------------------------------------------ properties: the root
\* The argument is not a non-nil pointer to a record: the untyped nil, a
\* typed nil pointer, a record by value, a pointer to an integer.
Ineligible ==
    \/ o.t \in {"nil", "Outer", "*int32"}
    \/ o.t = "*Outer" /\ orig = Nil

\* C5: Sanitize on an ineligible argument returns no error, invokes no
\* field sanitizer and leaves the argument as it was.
C5_IneligibleNoOp ==
    (Called /\ Ineligible) =>
        (hist[1].status = "ok" /\ hist[1].log = <<>> /\ hist[1].val = orig)

\* A record passed by value whose field lies above its max stays as it is.
C5_Witness ==
    /\ Called
    /\ o.t = "Outer"
    /\ HasDir("max", 0) /\ NoDir("min")
    /\ orig = <<MaxVal>>
    /\ hist[1].status = "ok"
    /\ o.v = <<MaxVal>>

RootIterable == o.t \in {"[]*Outer", "[]Outer", "map[string]*Outer"} \/
                (o.t = "*[]*Outer" /\ orig # Nil)

\* The elements of the root sequence or mapping, before the first call.
RootElems == IF o.t = "*[]*Outer" THEN orig[1] ELSE orig

\* Sanitize fails on an element: a non-nil pointer to a record whose
\* directives are rejected.
ElemFails(e) == o.t # "[]Outer" /\ e # Nil /\ BadDirectives

\* C7: on a root sequence or mapping the call returns normally whatever the
\* elements do: no error iff every element succeeded, otherwise an error
\* carrying one message per failed element.
C7_RootIteration ==
    (Called /\ RootIterable) =>
        LET failed == {k \in DOMAIN RootElems : ElemFails(RootElems[k])}
        IN  /\ hist[1].status # "panic"
            /\ hist[1].status = "ok" <=> failed = {}
            /\ Len(hist[1].err) = Cardinality(failed)

\* ------------------------------------------- properties: the traversal
KidsType == schema.Outer[2].type
TagsA == schema.Outer[1].tags
TagsB == schema.Outer[4].tags
NDesc == schema.Inner[1]

\* The values of N in the records a Kids value of type t holds, in the
\* order the traversal visits them (ord for the keys of a mapping).
RECURSIVE KidLeaves(_, _, _)
KidLeaves(t, kv, ord) ==
    CASE Kind(t) = "Struct" -> <<kv[1]>>
      [] Kind(t) = "Ptr" -> IF kv = Nil THEN <<>> ELSE KidLeaves(ElemType(t), kv[1], ord)
      [] Kind(t) = "Slice" ->
            IF kv = <<>> THEN <<>>
            ELSE KidLeaves(ElemType(t), Head(kv), ord) \o KidLeaves(t, Tail(kv), ord)
      [] Kind(t) = "Map" ->
            LET ks == KeysInOrder(kv, ord)
                RECURSIVE Over(_)
                Over(i) == IF i > Len(ks) THEN <<>>
                           ELSE KidLeaves(ElemType(t), kv[ks[i]], ord) \o Over(i + 1)
            IN  Over(1)

\* The directive-bearing fields of an Outer value sv in traversal order:
\* A, every N under Kids, B; each with its type and tags.
Leaves(sv, ord) ==
    LET ns == KidLeaves(KidsType, sv[2], ord)
    IN  <<[v |-> sv[1], t |-> "int32", tags |-> TagsA]>>
        \o [i \in 1..Len(ns) |-> [v |-> ns[i], t |-> NDesc.type, tags |-> NDesc.tags]]
        \o <<[v |-> sv[4], t |-> "int32", tags |-> TagsB]>>

ExpectedLeaf(l) == ExpectedElem(l.tags, l.v, l.t = "*int32")

KidsIsContainer == KidsType \notin {"Inner", "*Inner"}

\* C6: Sanitize reaches every record in a sequence or mapping field: when
\* no directive is rejected, every N under Kids holds its sanitized value
\* in the caller's record after the call.
C6_NestedSanitized ==
    (Called /\ KidsIsContainer /\ ~BadTags(TagsA) /\ ~BadTags(NDesc.tags)
       /\ ~BadTags(TagsB)) =>
        LET before == Leaves(orig[1], hist[1].ord)
            after == Leaves(hist[1].val[1], hist[1].ord)
        IN  /\ Len(after) = Len(before)
            /\ \A i \in 1..Len(before) : after[i].v = ExpectedLeaf(before[i])

\* C8: a call that returns an error stopped at the first field, in
\* traversal order, whose directives are rejected: the fields before it
\* hold their sanitized values, that field and the fields after it are
\* untouched, and X, which no sanitizer resolves for, is never touched.  A
\* call that returns no error met no rejected directive.
C8_FirstErrorAborts ==
    Called =>
        LET before == Leaves(orig[1], hist[1].ord)
            after == Leaves(hist[1].val[1], hist[1].ord)
            bad == {i \in 1..Len(before) : BadTags(before[i].tags)}
        IN  /\ hist[1].val[1][3] = orig[1][3]
            /\ hist[1].status = "ok" => bad = {}
            /\ hist[1].status = "error" =>
                 /\ bad # {}
                 /\ Len(after) = Len(before)
                 /\ \A i \in 1..Len(before) :
                      IF \E j \in bad : j <= i THEN after[i].v = before[i].v
                      ELSE after[i].v = ExpectedLeaf(before[i])

\* An error in the first record under Kids: A was already lowered to its
\* max and stays so, B lies above its max and is not touched.
C8_Witness ==
    /\ Called
    /\ hist[1].status = "error"
    /\ KidsType = "[]*Inner"
    /\ ~BadTags(TagsA) /\ BadTags(NDesc.tags) /\ ~BadTags(TagsB)
    /\ orig[1][1] = MaxVal /\ o.v[1][1] = 0
    /\ orig[1][4] = MaxVal /\ o.v[1][4] = MaxVal
    /\ Len(orig[1][2]) = MaxLen

\* -------------------------------------------- properties: the dispatch
\* The resolution policy on the table fns: the exact entry, else the text
\* sanitizer for a type convertible to text, else nothing.
Resolved(fns, t) ==
    IF t \in DOMAIN fns THEN <<fns[t]>>
    ELSE IF CanConvertToString(t) THEN <<fns["string"]>>
    ELSE <<>>

\* C10: one resolution policy.  Every Sanitize call invokes for F exactly
\* the sanitizer the policy resolves on the table it ran with, and leaves a
\* field that resolves to none untouched, without an error.
\* GetSanitizeByType reports an error exactly when the policy resolves none.
C10_OnePolicy ==
    /\ \A i \in DOMAIN hist :
         LET fn == Resolved(hist[i].fns, FDesc.type)
             prev == IF i = 1 THEN orig ELSE hist[i - 1].val
         IN  /\ [j \in DOMAIN hist[i].log |-> hist[i].log[j].fn] = fn
             /\ fn = <<>> => (hist[i].status = "ok" /\ hist[i].val = prev)
    /\ lookup.status \in {"ok", "error"} =>
         (lookup.status = "error" <=> Resolved(lookup.fns, lookup.t) = <<>>)

====
